---- MODULE Spec2Model ----
(***************************************************************************)
(* SEO Page Ranking Calculator (src/main.py): the criteria catalog, the    *)
(* judgments collected by the radio widgets, the scoring run started by    *)
(* the "Calculate Score" button, the rank estimate, the recommendation     *)
(* call and the exported report.                                           *)
(*                                                                         *)
(* Python computes every score in IEEE-754 binary64.  The scores are       *)
(* modelled bit for bit: a float is a 53-bit significand and an exponent,  *)
(* and every arithmetic operation rounds its exact result to nearest,      *)
(* ties to even, as the hardware does.  The significands do not fit the    *)
(* model checker's integers, so they are kept as little-endian sequences   *)
(* of 15-bit limbs.                                                        *)
(***************************************************************************)
EXTENDS Integers, Sequences, FiniteSets, TLC

(***************************************************************************)
(* Natural numbers of any size: <<l1, l2, ...>> stands for                 *)
(* l1 + l2*Base + l3*Base^2 + ..., every limb in 0..Base-1, no leading     *)
(* zero limb, <<>> for 0.                                                  *)
(***************************************************************************)
LimbBits == 15

Base == 2^LimbBits

RECURSIVE BNorm(_)
BNorm(a) ==
  IF a = <<>> THEN <<>>
  ELSE IF a[Len(a)] = 0 THEN BNorm(SubSeq(a, 1, Len(a) - 1))
  ELSE a

RECURSIVE BFromInt(_)
BFromInt(n) == IF n = 0 THEN <<>> ELSE <<n % Base>> \o BFromInt(n \div Base)

RECURSIVE BMulSmallC(_, _, _)
BMulSmallC(a, k, c) ==
  IF a = <<>> THEN BFromInt(c)
  ELSE LET t == a[1] * k + c
       IN  <<t % Base>> \o BMulSmallC(Tail(a), k, t \div Base)

\* a * k for 0 <= k < Base
BMulSmall(a, k) == BNorm(BMulSmallC(a, k, 0))

RECURSIVE BAddC(_, _, _)
BAddC(a, b, c) ==
  IF a = <<>> /\ b = <<>> THEN (IF c = 0 THEN <<>> ELSE <<c>>)
  ELSE LET x == IF a = <<>> THEN 0 ELSE a[1]
           y == IF b = <<>> THEN 0 ELSE b[1]
           t == x + y + c
       IN  <<t % Base>> \o BAddC(IF a = <<>> THEN <<>> ELSE Tail(a),
                                 IF b = <<>> THEN <<>> ELSE Tail(b),
                                 t \div Base)

BAdd(a, b) == BAddC(a, b, 0)

RECURSIVE BSubC(_, _, _)
BSubC(a, b, c) ==
  IF a = <<>> THEN <<>>
  ELSE LET y == IF b = <<>> THEN 0 ELSE b[1]
           t == a[1] - y - c
       IN  <<t % Base>> \o BSubC(Tail(a),
                                 IF b = <<>> THEN <<>> ELSE Tail(b),
                                 IF t < 0 THEN 1 ELSE 0)

\* a - b for a >= b
BSub(a, b) == BNorm(BSubC(a, b, 0))

RECURSIVE BCmpAt(_, _, _)
BCmpAt(a, b, i) ==
  IF i = 0 THEN 0
  ELSE IF a[i] > b[i] THEN 1
  ELSE IF a[i] < b[i] THEN -1
  ELSE BCmpAt(a, b, i - 1)

\* -1, 0 or 1 as a < b, a = b or a > b
BCmp(a, b) ==
  IF Len(a) > Len(b) THEN 1
  ELSE IF Len(a) < Len(b) THEN -1
  ELSE BCmpAt(a, b, Len(a))

BTimesBase(a) == IF a = <<>> THEN <<>> ELSE <<0>> \o a

RECURSIVE BMul(_, _)
BMul(a, b) ==
  IF b = <<>> THEN <<>>
  ELSE BAdd(BMulSmall(a, b[1]), BTimesBase(BMul(a, Tail(b))))

RECURSIVE BDivSmallR(_, _)
BDivSmallR(a, k) ==
  IF a = <<>> THEN [q |-> <<>>, r |-> 0]
  ELSE LET hi == BDivSmallR(Tail(a), k)
           t  == hi.r * Base + a[1]
       IN  [q |-> <<t \div k>> \o hi.q, r |-> t % k]

\* quotient and remainder of a by k, 0 < k < Base
BDivSmall(a, k) ==
  LET d == BDivSmallR(a, k) IN [q |-> BNorm(d.q), r |-> d.r]

RECURSIVE BZeros(_)
BZeros(n) == IF n = 0 THEN <<>> ELSE <<0>> \o BZeros(n - 1)

\* a * 2^s
BShl(a, s) ==
  IF a = <<>> THEN <<>>
  ELSE BMulSmall(BZeros(s \div LimbBits) \o a, 2^(s % LimbBits))

\* a \div 2^d
BShr(a, d) ==
  IF Len(a) <= d \div LimbBits THEN <<>>
  ELSE BDivSmall(SubSeq(a, (d \div LimbBits) + 1, Len(a)), 2^(d % LimbBits)).q

RECURSIVE BitLenSmall(_)
BitLenSmall(n) == IF n = 0 THEN 0 ELSE 1 + BitLenSmall(n \div 2)

\* the number of bits of a
BBitLen(a) ==
  IF a = <<>> THEN 0 ELSE LimbBits * (Len(a) - 1) + BitLenSmall(a[Len(a)])

(***************************************************************************)
(* Python floats.  A float > 0 is [m, e] with value m * 2^e and m of       *)
(* exactly MantBits bits; 0.0 is FZero.  Every score of this program is    *)
(* a normal number >= 0, so signs, subnormals, infinities and NaN do not   *)
(* occur.  The int 0 that calculate_score returns for an empty denominator *)
(* is FZero too: Python's +, /, >= and the .2f format treat 0 and 0.0      *)
(* alike.                                                                  *)
(***************************************************************************)
MantBits == 53

FZero == [m |-> <<>>, e |-> 0]

\* (n + s) * 2^e rounded to nearest, ties to even, where 0 < s < 1 when
\* sticky and s = 0 otherwise; sticky only with more than MantBits bits in n
FRound(n, e, sticky) ==
  IF n = <<>> THEN FZero
  ELSE LET L == BBitLen(n) IN
    IF L <= MantBits
    THEN [m |-> BShl(n, MantBits - L), e |-> e - (MantBits - L)]
    ELSE LET d    == L - MantBits
             q    == BShr(n, d)
             r    == BSub(n, BShl(q, d))
             c    == BCmp(r, BShl(<<1>>, d - 1))
             up   == c = 1 \/ (c = 0 /\ (sticky \/ q[1] % 2 = 1))
             q1   == IF up THEN BAdd(q, <<1>>) ELSE q
         IN  IF BBitLen(q1) > MantBits
             THEN [m |-> BShr(q1, 1), e |-> e + d + 1]
             ELSE [m |-> q1, e |-> e + d]

\* a / b for ints 0 <= a, 0 < b < Base: Python's true division, the exact
\* quotient rounded once
FIntDiv(a, b) ==
  LET d == BDivSmall(BShl(BFromInt(a), 5 * LimbBits), b)
  IN  FRound(d.q, 0 - 5 * LimbBits, d.r # 0)

\* x * y
FMul(x, y) == FRound(BMul(x.m, y.m), x.e + y.e, FALSE)

\* x * k for an int 0 <= k < Base
FMulInt(x, k) == FRound(BMulSmall(x.m, k), x.e, FALSE)

\* x / k for an int 0 < k < Base
FDivInt(x, k) ==
  LET d == BDivSmall(BShl(x.m, 2 * LimbBits), k)
  IN  FRound(d.q, x.e - 2 * LimbBits, d.r # 0)

\* x + y
FAdd(x, y) ==
  IF x.m = <<>> THEN y
  ELSE IF y.m = <<>> THEN x
  ELSE LET e == IF x.e < y.e THEN x.e ELSE y.e
       IN  FRound(BAdd(BShl(x.m, x.e - e), BShl(y.m, y.e - e)), e, FALSE)

\* x >= y
FGeq(x, y) ==
  IF y.m = <<>> THEN TRUE
  ELSE IF x.m = <<>> THEN FALSE
  ELSE IF x.e # y.e THEN x.e > y.e
  ELSE BCmp(x.m, y.m) >= 0

(***************************************************************************)
(* The criteria catalog (src/main.py, seo_factors): the buckets in the     *)
(* order of the dict, each with its factors in order, each factor with its *)
(* criteria in order.  The third element of a criterion, its help text, is *)
(* shown as a tooltip only and is left out.                                *)
(***************************************************************************)
seo_factors ==
  <<
   [bucket |-> "On-Page", factors |-> <<
     [factor |-> "H1 Tag", criteria |-> <<
        [criterion |-> "Is included on-page at top of heading hierarchy",
         weight |-> 10],
        [criterion |-> "Contains proper length",
         weight |-> 8],
        [criterion |-> "Contains primary keyword",
         weight |-> 9],
        [criterion |-> "There is only a single H1 tag on-page",
         weight |-> 8]>>],
     [factor |-> "Meta Title", criteria |-> <<
        [criterion |-> "Contains proper length",
         weight |-> 9],
        [criterion |-> "Contains primary keyword",
         weight |-> 10],
        [criterion |-> "There is only a single meta title on-page",
         weight |-> 8]>>],
     [factor |-> "Meta Description", criteria |-> <<
        [criterion |-> "Contains proper length",
         weight |-> 5],
        [criterion |-> "Contains primary keyword",
         weight |-> 6],
        [criterion |-> "There is only a single meta description on-page",
         weight |-> 4],
        [criterion |-> "Adequately describes the purpose of the page as a CTA",
         weight |-> 5]>>],
     [factor |-> "Proper Heading Hierarchy", criteria |-> <<
        [criterion |-> "Only a single H1; H2s follow H1 tag; H3s follow H2s, etcâ€¦",
         weight |-> 7]>>],
     [factor |-> "Image Alt Text", criteria |-> <<
        [criterion |-> "Images include alt text with target keyword",
         weight |-> 3],
        [criterion |-> "Alt text properly describes imagery in a meaningful way",
         weight |-> 2]>>],
     [factor |-> "Schema Markup", criteria |-> <<
        [criterion |-> "Schema is included on-page as JSON-LD",
         weight |-> 9],
        [criterion |-> "No errors or warnings with schema markup",
         weight |-> 8],
        [criterion |-> "Schema markup matches page intent",
         weight |-> 9]>>],
     [factor |-> "Internal Linking", criteria |-> <<
        [criterion |-> "Other pages properly point to this one with target keyword included in anchor text",
         weight |-> 7],
        [criterion |-> "This page logically drives users to the next anticipated step in the user journey",
         weight |-> 6],
        [criterion |-> "This page doesn't send users to a dead end experience / poor off-ramp",
         weight |-> 5]>>],
     [factor |-> "User Engagement Metrics", criteria |-> <<
        [criterion |-> "Bounce rate meets or exceeds baseline",
         weight |-> 8],
        [criterion |-> "Time spent on-page meets or exceeds baseline",
         weight |-> 9],
        [criterion |-> "CTR / average KW position meets or exceeds baseline",
         weight |-> 8],
        [criterion |-> "Visits meet or exceed baseline",
         weight |-> 7],
        [criterion |-> "Conversions / abandons meet or exceed baseline",
         weight |-> 8],
        [criterion |-> "Scroll depth meets or exceeds baseline",
         weight |-> 6]>>],
     [factor |-> "Primary Topic/Keyword Targeting", criteria |-> <<
        [criterion |-> "Keyword is included above the fold in content",
         weight |-> 10],
        [criterion |-> "Relevant secondary keywords are included within subheads / body copy of page",
         weight |-> 7],
        [criterion |-> "Page matches expected keyword intent",
         weight |-> 9]>>],
     [factor |-> "URL Slug", criteria |-> <<
        [criterion |-> "Short length",
         weight |-> 3],
        [criterion |-> "Omission of stop words",
         weight |-> 2],
        [criterion |-> "Aligns with informational architecture of domain",
         weight |-> 4],
        [criterion |-> "Lowercase only",
         weight |-> 2],
        [criterion |-> "Hyphens only",
         weight |-> 2],
        [criterion |-> "Non-parameterized (optional)",
         weight |-> 1],
        [criterion |-> "ASCII characters only",
         weight |-> 1],
        [criterion |-> "Depth of 5 or less from the homepage",
         weight |-> 2]>>],
     [factor |-> "Quality of Content", criteria |-> <<
        [criterion |-> "Accuracy",
         weight |-> 10],
        [criterion |-> "Originality",
         weight |-> 9],
        [criterion |-> "Tone of voice matches brand standards",
         weight |-> 8],
        [criterion |-> "Topic completeness",
         weight |-> 10],
        [criterion |-> "Readability",
         weight |-> 8],
        [criterion |-> "Formatting (paragraph breaks, logical subheading structure)",
         weight |-> 7],
        [criterion |-> "Content freshness / regularly updated",
         weight |-> 9],
        [criterion |-> "Page matches expected user intent",
         weight |-> 10],
        [criterion |-> "Other pages don't cannibalize this one for content",
         weight |-> 8]>>]>>],
   [bucket |-> "Off-Page", factors |-> <<
     [factor |-> "Page Authority vs Top 10", criteria |-> <<
        [criterion |-> "Page authority is greater than average of top 10 results",
         weight |-> 7]>>],
     [factor |-> "Page Authority vs Top 3", criteria |-> <<
        [criterion |-> "Page authority is greater than average of top 3 results",
         weight |-> 9]>>],
     [factor |-> "Backlinks from Relevant Domains", criteria |-> <<
        [criterion |-> "Backlinks are from topically relevant domains",
         weight |-> 7]>>],
     [factor |-> "Backlink Placement", criteria |-> <<
        [criterion |-> "Backlinks are placed higher up on sourced pages / are likely to be clicked",
         weight |-> 3]>>],
     [factor |-> "Backlink Anchor Text", criteria |-> <<
        [criterion |-> "Backlinks contain topically relevant anchor text",
         weight |-> 6]>>],
     [factor |-> "Backlink Traffic", criteria |-> <<
        [criterion |-> "Backlinks are placed on pages that actually drive visits",
         weight |-> 7]>>]>>],
   [bucket |-> "Technical", factors |-> <<
     [factor |-> "Canonical Tag", criteria |-> <<
        [criterion |-> "Canonical tag contains self-reference",
         weight |-> 6]>>],
     [factor |-> "Hreflang Tag", criteria |-> <<
        [criterion |-> "Hreflang tag (optional) is correct, targets the right locations, and references other translated page equivalents",
         weight |-> 6]>>],
     [factor |-> "Indexability", criteria |-> <<
        [criterion |-> "Page is indexable by search engines / isn't blocked by meta tags or robots.txt",
         weight |-> 10]>>],
     [factor |-> "Sitemap Inclusion", criteria |-> <<
        [criterion |-> "Page is included in sitemap.xml file",
         weight |-> 2]>>],
     [factor |-> "Page Orphan Status", criteria |-> <<
        [criterion |-> "Page isn't orphaned",
         weight |-> 2]>>],
     [factor |-> "Renderability", criteria |-> <<
        [criterion |-> "Page elements are renderable by search engines",
         weight |-> 6]>>],
     [factor |-> "Web Core Vitals", criteria |-> <<
        [criterion |-> "Page passes Web Core Vitals metrics / exceeds industry average",
         weight |-> 3]>>],
     [factor |-> "Mobile Friendliness", criteria |-> <<
        [criterion |-> "Page is mobile-friendly and responsive",
         weight |-> 8]>>],
     [factor |-> "HTTPS", criteria |-> <<
        [criterion |-> "Page is served over HTTPS",
         weight |-> 5]>>]>>]>>

\* bucket_weights with a mistyped weight: the three no longer sum to 1
bucket_weights_mistyped ==
  [b \in {"On-Page", "Off-Page", "Technical"} |->
     CASE b = "On-Page"   -> FIntDiv(55, 100)
       [] b = "Off-Page"  -> FIntDiv(30, 100)
       [] b = "Technical" -> FIntDiv(25, 100)]

bucket_weights ==
  [b \in {"On-Page", "Off-Page", "Technical"} |->
     CASE b = "On-Page"   -> FIntDiv(55, 100)
       [] b = "Off-Page"  -> FIntDiv(30, 100)
       [] b = "Technical" -> FIntDiv(15, 100)]

Criteria(b, f) == seo_factors[b].factors[f].criteria

\* every (bucket, factor, criterion) position of the catalog
Positions ==
  UNION {UNION {{<<b, f, c>> : c \in 1..Len(Criteria(b, f))} :
                  f \in 1..Len(seo_factors[b].factors)} :
           b \in 1..Len(seo_factors)}

(***************************************************************************)
(* The input step.  "optional" in criterion.lower() is a substring test;   *)
(* strings are atoms here, so the test is given by the set of the catalog's*)
(* criterion names it is true of.                                          *)
(***************************************************************************)
HasOptional(criterion) ==
  criterion \in
    {"Non-parameterized (optional)",
     "Hreflang tag (optional) is correct, targets the right locations, and references other translated page equivalents"}

\* RadioOptions offering N/A for every criterion
RadioOptions_na_everywhere(criterion) == <<"Yes", "No", "N/A">>

\* the options of a criterion's radio widget
RadioOptions(criterion) ==
  IF HasOptional(criterion) THEN <<"Yes", "No", "N/A">> ELSE <<"Yes", "No">>

\* st.radio(..., index=1): the option a widget shows until the user picks one
RadioDefault(criterion) == RadioOptions(criterion)[2]

\* the widget values of a session nobody has touched
DefaultRadio ==
  [b \in 1..Len(seo_factors) |->
    [f \in 1..Len(seo_factors[b].factors) |->
      [c \in 1..Len(Criteria(b, f)) |-> RadioDefault(Criteria(b, f)[c].criterion)]]]

\* get_user_input: the responses of one factor, from its widgets' values
get_user_input(criteria, chosen) ==
  [i \in 1..Len(criteria) |->
     [criterion |-> criteria[i].criterion,
      response  |-> chosen[i],
      weight    |-> criteria[i].weight]]

\* main, the loop that builds inputs
CollectInputs(chosen) ==
  [b \in 1..Len(seo_factors) |->
    [f \in 1..Len(seo_factors[b].factors) |->
      get_user_input(Criteria(b, f), chosen[b][f])]]

(***************************************************************************)
(* The scorer.                                                             *)
(***************************************************************************)
RECURSIVE ScoreLoop(_, _, _, _)
ScoreLoop(inp, i, score, max_score) ==
  IF i > Len(inp) THEN [score |-> score, max_score |-> max_score]
  ELSE ScoreLoop(inp, i + 1,
                 IF inp[i].response = "Yes" THEN score + inp[i].weight ELSE score,
                 IF inp[i].response # "N/A" THEN max_score + inp[i].weight
                                            ELSE max_score)

\* calculate_score with N/A weights left in the denominator
calculate_score_counting_na(inp) ==
  LET t == ScoreLoop(inp, 1, 0, 0)
      all == ScoreLoop([i \in 1..Len(inp) |-> [inp[i] EXCEPT !.response = "No"]], 1, 0, 0)
  IN  IF all.max_score > 0 THEN FMulInt(FIntDiv(t.score, all.max_score), 10)
      ELSE FZero

calculate_score(inp) ==
  LET t == ScoreLoop(inp, 1, 0, 0)
  IN  IF t.max_score > 0 THEN FMulInt(FIntDiv(t.score, t.max_score), 10)
      ELSE FZero

\* Python's sum() over floats: left to right from 0
RECURSIVE PySum(_, _)
PySum(xs, acc) == IF xs = <<>> THEN acc ELSE PySum(Tail(xs), FAdd(acc, Head(xs)))

\* the values calculate_score returns for the factors of bucket b
FactorScores(inp, b) ==
  [f \in 1..Len(seo_factors[b].factors) |-> calculate_score(inp[b][f])]

\* BucketScore leaving the factors that scored 0 out of the mean
BucketScore_skipping_zero(fs) ==
  LET kept == SelectSeq(fs, LAMBDA x : x # FZero)
  IN  IF kept = <<>> THEN FZero ELSE FDivInt(PySum(kept, FZero), Len(kept))

\* BucketScore without the division
BucketScore_undivided(fs) == PySum(fs, FZero)

\* BucketScore dividing by one factor too few
BucketScore_off_by_one(fs) == FDivInt(PySum(fs, FZero), Len(fs) - 1)

\* scores[bucket] = bucket_score / len(factors)
BucketScore(fs) == FDivInt(PySum(fs, FZero), Len(fs))

\* the summands of overall_score: score * bucket_weights[bucket], over the
\* entries scores holds when the sum is taken
WeightedScores(sc) ==
  [i \in 1..Len(sc) |-> FMul(sc[i].value, bucket_weights[sc[i].key])]

\* OverallScore as the plain mean of the bucket scores
OverallScore_unweighted(sc) ==
  FDivInt(PySum([i \in 1..Len(sc) |-> sc[i].value], FZero), Len(sc))

OverallScore(sc) == PySum(WeightedScores(sc), FZero)

\* the scores dict after the loop over the buckets: one entry per bucket
BucketScores(fsc) ==
  [b \in 1..Len(seo_factors) |->
     [key |-> seo_factors[b].bucket, value |-> BucketScore(fsc[b])]]

\* the scores dict as main leaves it: the buckets, then "Overall"
AllScores(fsc) ==
  LET sc == BucketScores(fsc)
  IN  Append(sc, [key |-> "Overall", value |-> OverallScore(sc)])

\* scores[k]
Lookup(sc, k) == sc[CHOOSE i \in 1..Len(sc) : sc[i].key = k].value

(***************************************************************************)
(* The rank estimator.  The thresholds 9.5 ... 6.0 are halves, which       *)
(* binary64 holds exactly.                                                 *)
(***************************************************************************)
Half(n) == FIntDiv(n, 2)

\* estimate_ranking with > for >=
estimate_ranking_exclusive(overall_score) ==
  IF ~FGeq(Half(19), overall_score) THEN "1-3"
  ELSE IF ~FGeq(Half(18), overall_score) THEN "4-6"
  ELSE IF ~FGeq(Half(17), overall_score) THEN "7-10"
  ELSE IF ~FGeq(Half(16), overall_score) THEN "11-15"
  ELSE IF ~FGeq(Half(15), overall_score) THEN "16-20"
  ELSE IF ~FGeq(Half(14), overall_score) THEN "21-30"
  ELSE IF ~FGeq(Half(13), overall_score) THEN "31-50"
  ELSE IF ~FGeq(Half(12), overall_score) THEN "51-100"
  ELSE "100+"

estimate_ranking(overall_score) ==
  IF FGeq(overall_score, Half(19)) THEN "1-3"
  ELSE IF FGeq(overall_score, Half(18)) THEN "4-6"
  ELSE IF FGeq(overall_score, Half(17)) THEN "7-10"
  ELSE IF FGeq(overall_score, Half(16)) THEN "11-15"
  ELSE IF FGeq(overall_score, Half(15)) THEN "16-20"
  ELSE IF FGeq(overall_score, Half(14)) THEN "21-30"
  ELSE IF FGeq(overall_score, Half(13)) THEN "31-50"
  ELSE IF FGeq(overall_score, Half(12)) THEN "51-100"
  ELSE "100+"
(***************************************************************************)
(* The recommendation call.  A text is a sequence of lines; a line is      *)
(* given by the mark export_to_word tests it for ("###", "**" around it,   *)
(* "-", "1.", none, or "blank" for an empty line) and the rest of it.      *)
(***************************************************************************)
Line(mark, body) == [mark |-> mark, body |-> body]

\* what get_gpt4_recommendations returns when the call raises
Placeholder == <<Line("", "Unable to generate recommendations at this time.")>>

\* texts the service may answer with: a formatted one, and the empty string
SampleContents ==
  {<<Line("###", "On-Page"), Line("**", "H1 Tag"),
     Line("-", "Action: add the primary keyword"), Line("blank", ""),
     Line("", "Review the page again afterwards")>>,
   <<Line("blank", "")>>}

\* what client.chat.completions.create can do: raise, or answer
ApiOutcomes ==
  {[raised |-> TRUE, content |-> <<>>]} \cup
  {[raised |-> FALSE, content |-> t] : t \in SampleContents}

\* get_gpt4_recommendations without its try / except
get_gpt4_recommendations_uncaught(outcome) ==
  [calls |-> 1, raised |-> outcome.raised, lines |-> outcome.content]

\* get_gpt4_recommendations, given what the service does when called: how
\* often it was called, whether an exception leaves the function, and the
\* text returned.  The try block holds the one call; except Exception
\* returns the placeholder.
get_gpt4_recommendations(outcome) ==
  [calls  |-> 1,
   raised |-> FALSE,
   lines  |-> IF outcome.raised THEN Placeholder ELSE outcome.content]

(***************************************************************************)
(* The report.  The document is the sequence of the blocks python-docx is  *)
(* asked to add; a block's text is kept as its parts, and a score printed  *)
(* with :.2f as the number of hundredths.                                  *)
(***************************************************************************)
Block(style, text, num) == [style |-> style, text |-> text, num |-> num]

\* the int a bignum of at most two limbs stands for
BToInt(a) ==
  IF a = <<>> THEN 0 ELSE IF Len(a) = 1 THEN a[1] ELSE a[1] + a[2] * Base

\* f"{x:.2f}" as hundredths: the exact value of x rounded to two decimals,
\* ties to even (x < 2^52)
Hundredths(x) ==
  IF x.m = <<>> THEN 0
  ELSE LET n  == BMulSmall(x.m, 100)
           d  == 0 - x.e
           q  == BShr(n, d)
           r  == BSub(n, BShl(q, d))
           c  == BCmp(r, BShl(<<1>>, d - 1))
           qi == BToInt(q)
       IN  IF c = 1 \/ (c = 0 /\ qi % 2 = 1) THEN qi + 1 ELSE qi

RECURSIVE Flatten(_)
Flatten(ss) == IF ss = <<>> THEN <<>> ELSE Head(ss) \o Flatten(Tail(ss))

RECURSIVE RecommendationBlocks(_, _)
RecommendationBlocks(lines, current_heading) ==
  IF lines = <<>> THEN <<>>
  ELSE LET l == Head(lines)
           rest == Tail(lines)
       IN  CASE l.mark = "blank" -> RecommendationBlocks(rest, current_heading)
             [] l.mark = "###" ->
                  <<Block("Heading 2", <<l.body>>, -1)>>
                    \o RecommendationBlocks(rest, "")
             [] l.mark = "**" ->
                  <<Block("Heading 3", <<l.body>>, -1)>>
                    \o RecommendationBlocks(rest, l.body)
             [] l.mark = "-" ->
                  <<Block("List Bullet", <<l.body>>, -1)>>
                    \o RecommendationBlocks(rest, current_heading)
             [] l.mark = "1." ->
                  <<Block("List Number", <<l.mark, l.body>>, -1)>>
                    \o RecommendationBlocks(rest, current_heading)
             [] OTHER ->
                  <<Block("Normal",
                          IF current_heading # "" THEN <<current_heading, l.body>>
                                                  ELSE <<l.body>>, -1)>>
                    \o RecommendationBlocks(rest, current_heading)

\* CriteriaBlocks listing the N/A criteria too, marked as left out of the
\* score
CriteriaBlocks_listing_na(inp) ==
  [i \in 1..Len(inp) |->
     Block("Normal",
           IF inp[i].response # "N/A" THEN <<inp[i].criterion, inp[i].response>>
           ELSE <<inp[i].criterion, inp[i].response, "(excluded from scoring)">>,
           -1)]

\* the paragraphs of one factor in 'Selected Criteria'
CriteriaBlocks(inp) ==
  Flatten([i \in 1..Len(inp) |->
             IF inp[i].response # "N/A"
             THEN <<Block("Normal", <<inp[i].criterion, inp[i].response>>, -1)>>
             ELSE <<>>])

SelectedCriteriaBlocks(inp) ==
  Flatten([b \in 1..Len(seo_factors) |->
    <<Block("Heading 2", <<seo_factors[b].bucket, "Factors">>, -1)>> \o
    Flatten([f \in 1..Len(seo_factors[b].factors) |->
      <<Block("Heading 3", <<seo_factors[b].factors[f].factor>>, -1)>> \o
      CriteriaBlocks(inp[b][f])])])

export_to_word(inp, sc, recs, ranking) ==
  <<Block("Title", <<"SEO Audit Results">>, -1),
    Block("Heading 1", <<"Scores">>, -1)>>
  \o [i \in 1..Len(sc) |-> Block("Normal", <<sc[i].key, "/10">>, Hundredths(sc[i].value))]
  \o <<Block("Heading 1", <<"Estimated Ranking">>, -1),
       Block("Normal", <<"Based on the overall score of", ranking>>,
             Hundredths(Lookup(sc, "Overall"))),
       Block("Heading 1", <<"Recommendations">>, -1)>>
  \o RecommendationBlocks(recs, "")
  \o <<Block("Heading 1", <<"Selected Criteria">>, -1)>>
  \o SelectedCriteriaBlocks(inp)
(***************************************************************************)
(* The state.  Streamlit runs the script again, top to bottom, on every    *)
(* interaction of a session; widgets and st.session_state live across the  *)
(* runs of a session, os.environ is the server process's, everything else  *)
(* is a variable of one run.  Each variable below that is a function of    *)
(* the session is one such value per session.                              *)
(***************************************************************************)
Sessions == {1, 2}

\* the credential a session's user has; "" is none
KeyOf(s) == IF s = 1 THEN "sk-1" ELSE "sk-2"

\* most judgments a user changes (a bound of the model)
MaxEdits == 1

VARIABLES
  connected,          \* the sessions whose browser is connected
  pc,                 \* where a session's current run stands
  key_input,          \* the sidebar text input widget (key openai_api_key_input)
  ss_key,             \* st.session_state.openai_api_key
  environ,            \* os.environ["OPENAI_API_KEY"]; "" is unset
  radio,              \* the radio widgets' values, by position
  touched,            \* the positions whose judgment the user picked
  edits,              \* how many judgments the user has changed
  button,             \* st.button("Calculate Score") in the current run
  api_key,            \* the module's api_key; "" is None
  client,             \* the key the module's client holds; "" is client = None
  inputs,             \* main's inputs; <<>> before it is built
  factor_scores,      \* what calculate_score returned, by bucket and factor
  scores,             \* main's scores: a sequence of [key, value]
  estimated_ranking,  \* main's estimated_ranking
  recommendations,    \* main's recommendations: [bound, lines]
  api_calls,          \* calls to client.chat.completions.create in the run
  api_result,         \* what the service did: "none", "answered" or "raised"
  doc,                \* the document export_to_word returned; <<>> is none
  error,              \* the exception that ended the run; "" is none
  arg,                \* the argument of a function applied on its own
  result              \* what that function returned: [done, value]

vars ==
  <<connected, pc, key_input, ss_key, environ, radio, touched, edits, button,
    api_key, client, inputs, factor_scores, scores, estimated_ranking,
    recommendations, api_calls, api_result, doc, error, arg, result>>

widgetVars == <<key_input, radio, touched, edits>>

keyVars == <<ss_key, environ, api_key, client>>

resultVars ==
  <<inputs, factor_scores, scores, estimated_ranking, recommendations,
    api_calls, api_result, doc, error>>

applyVars == <<arg, result>>

Unbound == [bound |-> FALSE, lines |-> <<>>]

\* every judgment Yes: what the widgets hold once the user has picked Yes
\* everywhere
AllYes ==
  [b \in 1..Len(seo_factors) |->
    [f \in 1..Len(seo_factors[b].factors) |->
      [c \in 1..Len(Criteria(b, f)) |-> "Yes"]]]

\* Yes for the first, third, ... criterion of every factor, No for the others
Alternating ==
  [b \in 1..Len(seo_factors) |->
    [f \in 1..Len(seo_factors[b].factors) |->
      [c \in 1..Len(Criteria(b, f)) |-> IF c % 2 = 1 THEN "Yes" ELSE "No"]]]

\* the positions where the widgets differ from their defaults
Changed(r) == {p \in Positions : r[p[1]][p[2]][p[3]] # DefaultRadio[p[1]][p[2]][p[3]]}

InitWith(cs, rs, args) ==
  /\ connected = cs
  /\ pc = [s \in Sessions |-> "idle"]
  /\ key_input = [s \in Sessions |-> ""]
  /\ ss_key = [s \in Sessions |-> ""]
  /\ environ = ""
  /\ radio \in [Sessions -> rs]
  /\ \A s \in Sessions \ cs : radio[s] = DefaultRadio
  /\ touched = [s \in Sessions |-> Changed(radio[s])]
  /\ edits = [s \in Sessions |-> 0]
  /\ button = [s \in Sessions |-> FALSE]
  /\ api_key = [s \in Sessions |-> ""]
  /\ client = [s \in Sessions |-> ""]
  /\ inputs = [s \in Sessions |-> <<>>]
  /\ factor_scores = [s \in Sessions |-> <<>>]
  /\ scores = [s \in Sessions |-> <<>>]
  /\ estimated_ranking = [s \in Sessions |-> "UNBOUND"]
  /\ recommendations = [s \in Sessions |-> Unbound]
  /\ api_calls = [s \in Sessions |-> 0]
  /\ api_result = [s \in Sessions |-> "none"]
  /\ doc = [s \in Sessions |-> <<>>]
  /\ error = [s \in Sessions |-> ""]
  /\ arg \in args
  /\ result = [done |-> FALSE, value |-> <<>>]

\* One session; its widgets hold their defaults, or the user has already
\* picked Yes everywhere, or Yes for every other criterion.
Init == InitWith({1}, {DefaultRadio, AllYes, Alternating}, {<<>>})

\* a run is over: the page shows what it showed, and waits
Resting(s) == pc[s] \in {"idle", "done", "failed"}

\* an interaction starts the script again; the last run's variables are gone
Rerun(s, clicked) ==
  /\ pc' = [pc EXCEPT ![s] = "get_key"]
  /\ button' = [button EXCEPT ![s] = clicked]
  /\ api_key' = [api_key EXCEPT ![s] = ""]
  /\ client' = [client EXCEPT ![s] = ""]
  /\ inputs' = [inputs EXCEPT ![s] = <<>>]
  /\ factor_scores' = [factor_scores EXCEPT ![s] = <<>>]
  /\ scores' = [scores EXCEPT ![s] = <<>>]
  /\ estimated_ranking' = [estimated_ranking EXCEPT ![s] = "UNBOUND"]
  /\ recommendations' = [recommendations EXCEPT ![s] = Unbound]
  /\ api_calls' = [api_calls EXCEPT ![s] = 0]
  /\ api_result' = [api_result EXCEPT ![s] = "none"]
  /\ doc' = [doc EXCEPT ![s] = <<>>]
  /\ error' = [error EXCEPT ![s] = ""]
  /\ UNCHANGED <<connected, ss_key, environ>>
  /\ UNCHANGED applyVars

\* the user types a key into the sidebar, or clears it
EnterKey(s) ==
  /\ Resting(s)
  /\ \E k \in {"", KeyOf(s)} :
       /\ k # key_input[s]
       /\ key_input' = [key_input EXCEPT ![s] = k]
  /\ UNCHANGED <<radio, touched, edits>>
  /\ Rerun(s, FALSE)

\* the user picks another option of a criterion's radio widget
SetJudgment(s) ==
  /\ Resting(s)
  /\ edits[s] < MaxEdits
  /\ \E p \in Positions :
       LET opts == RadioOptions(Criteria(p[1], p[2])[p[3]].criterion)
       IN  \E i \in 1..Len(opts) :
             /\ opts[i] # radio[s][p[1]][p[2]][p[3]]
             /\ radio' = [radio EXCEPT ![s][p[1]][p[2]][p[3]] = opts[i]]
             /\ touched' = [touched EXCEPT ![s] = @ \cup {p}]
  /\ edits' = [edits EXCEPT ![s] = @ + 1]
  /\ UNCHANGED key_input
  /\ Rerun(s, FALSE)

\* the user clicks "Calculate Score"
ClickCalculate(s) ==
  /\ Resting(s)
  /\ UNCHANGED widgetVars
  /\ Rerun(s, TRUE)

\* get_openai_api_key, called at the top of the script
GetOpenaiApiKey(s) ==
  /\ pc[s] = "get_key"
  /\ IF key_input[s] # ""
     THEN /\ ss_key' = [ss_key EXCEPT ![s] = key_input[s]]
          /\ environ' = key_input[s]
          /\ api_key' = [api_key EXCEPT ![s] = key_input[s]]
     ELSE /\ api_key' = [api_key EXCEPT ![s] = ""]
          /\ UNCHANGED <<ss_key, environ>>
  /\ pc' = [pc EXCEPT ![s] = "client"]
  /\ UNCHANGED <<connected, button, client>>
  /\ UNCHANGED widgetVars
  /\ UNCHANGED resultVars
  /\ UNCHANGED applyVars

\* client = OpenAI() if api_key else None; OpenAI() takes its key from
\* os.environ
MakeClient(s) ==
  /\ pc[s] = "client"
  /\ client' = [client EXCEPT ![s] = IF api_key[s] # "" THEN environ ELSE ""]
  /\ pc' = [pc EXCEPT ![s] = "main"]
  /\ UNCHANGED <<connected, button, ss_key, environ, api_key>>
  /\ UNCHANGED widgetVars
  /\ UNCHANGED resultVars
  /\ UNCHANGED applyVars

\* main up to the button: the inputs are read off the widgets; without a
\* click the run ends here
Main(s) ==
  /\ pc[s] = "main"
  /\ inputs' = [inputs EXCEPT ![s] = CollectInputs(radio[s])]
  /\ pc' = [pc EXCEPT ![s] = IF button[s] THEN "score" ELSE "idle"]
  /\ UNCHANGED <<connected, button, factor_scores, scores, estimated_ranking,
                 recommendations, api_calls, api_result, doc, error>>
  /\ UNCHANGED widgetVars
  /\ UNCHANGED keyVars
  /\ UNCHANGED applyVars

\* the bucket scores and the overall score
Score(s) ==
  /\ pc[s] = "score"
  /\ LET fsc == [b \in 1..Len(seo_factors) |-> FactorScores(inputs[s], b)]
     IN  /\ factor_scores' = [factor_scores EXCEPT ![s] = fsc]
         /\ scores' = [scores EXCEPT ![s] = AllScores(fsc)]
  /\ pc' = [pc EXCEPT ![s] = "rank"]
  /\ UNCHANGED <<connected, button, inputs, estimated_ranking, recommendations,
                 api_calls, api_result, doc, error>>
  /\ UNCHANGED widgetVars
  /\ UNCHANGED keyVars
  /\ UNCHANGED applyVars

\* estimated_ranking = estimate_ranking(scores["Overall"])
Rank(s) ==
  /\ pc[s] = "rank"
  /\ estimated_ranking' =
       [estimated_ranking EXCEPT ![s] = estimate_ranking(Lookup(scores[s], "Overall"))]
  /\ pc' = [pc EXCEPT ![s] = "recommend"]
  /\ UNCHANGED <<connected, button, inputs, factor_scores, scores, recommendations,
                 api_calls, api_result, doc, error>>
  /\ UNCHANGED widgetVars
  /\ UNCHANGED keyVars
  /\ UNCHANGED applyVars

\* Recommend, with a raising call aborting the run and discarding its scores
Recommend_aborting(s) ==
  /\ pc[s] = "recommend"
  /\ api_key[s] # ""
  /\ \E outcome \in ApiOutcomes :
       LET r == get_gpt4_recommendations(outcome)
       IN  /\ api_calls' = [api_calls EXCEPT ![s] = @ + r.calls]
           /\ api_result' =
                [api_result EXCEPT ![s] = IF outcome.raised THEN "raised" ELSE "answered"]
           /\ recommendations' =
                [recommendations EXCEPT ![s] = [bound |-> TRUE, lines |-> r.lines]]
           /\ pc' = [pc EXCEPT ![s] = "export"]
           /\ scores' = [scores EXCEPT ![s] = IF outcome.raised THEN <<>> ELSE @]
           /\ estimated_ranking' =
                [estimated_ranking EXCEPT ![s] = IF outcome.raised THEN "UNBOUND" ELSE @]
  /\ UNCHANGED <<connected, button, inputs, factor_scores, doc, error>>
  /\ UNCHANGED widgetVars
  /\ UNCHANGED keyVars
  /\ UNCHANGED applyVars

\* if api_key: recommendations = get_gpt4_recommendations(inputs).  An
\* exception that left the function would end the run.
Recommend(s) ==
  /\ pc[s] = "recommend"
  /\ api_key[s] # ""
  /\ \E outcome \in ApiOutcomes :
       LET r == get_gpt4_recommendations(outcome)
       IN  /\ api_calls' = [api_calls EXCEPT ![s] = @ + r.calls]
           /\ api_result' =
                [api_result EXCEPT ![s] = IF outcome.raised THEN "raised" ELSE "answered"]
           /\ IF r.raised
              THEN /\ error' = [error EXCEPT ![s] = "Exception"]
                   /\ pc' = [pc EXCEPT ![s] = "failed"]
                   /\ UNCHANGED recommendations
              ELSE /\ recommendations' =
                        [recommendations EXCEPT ![s] = [bound |-> TRUE, lines |-> r.lines]]
                   /\ pc' = [pc EXCEPT ![s] = "export"]
                   /\ UNCHANGED error
  /\ UNCHANGED <<connected, button, inputs, factor_scores, scores,
                 estimated_ranking, doc>>
  /\ UNCHANGED widgetVars
  /\ UNCHANGED keyVars
  /\ UNCHANGED applyVars

\* else: st.warning(...); recommendations is not assigned
SkipRecommend(s) ==
  /\ pc[s] = "recommend"
  /\ api_key[s] = ""
  /\ pc' = [pc EXCEPT ![s] = "export"]
  /\ UNCHANGED <<connected, button>>
  /\ UNCHANGED widgetVars
  /\ UNCHANGED keyVars
  /\ UNCHANGED resultVars
  /\ UNCHANGED applyVars

\* doc_bytes = export_to_word(inputs, scores, recommendations,
\* estimated_ranking), then the download button.  Reading a local that was
\* never assigned raises UnboundLocalError.
Export(s) ==
  /\ pc[s] = "export"
  /\ IF recommendations[s].bound
     THEN /\ doc' = [doc EXCEPT ![s] =
                       export_to_word(inputs[s], scores[s], recommendations[s].lines,
                                      estimated_ranking[s])]
          /\ pc' = [pc EXCEPT ![s] = "done"]
          /\ UNCHANGED error
     ELSE /\ error' = [error EXCEPT ![s] = "UnboundLocalError"]
          /\ pc' = [pc EXCEPT ![s] = "failed"]
          /\ UNCHANGED doc
  /\ UNCHANGED <<connected, button, inputs, factor_scores, scores,
                 estimated_ranking, recommendations, api_calls, api_result>>
  /\ UNCHANGED widgetVars
  /\ UNCHANGED keyVars
  /\ UNCHANGED applyVars

Next ==
  \/ \E s \in connected : EnterKey(s)
  \/ \E s \in connected : SetJudgment(s)
  \/ \E s \in connected : ClickCalculate(s)
  \/ \E s \in connected : GetOpenaiApiKey(s)
  \/ \E s \in connected : MakeClient(s)
  \/ \E s \in connected : Main(s)
  \/ \E s \in connected : Score(s)
  \/ \E s \in connected : Rank(s)
  \/ \E s \in connected : Recommend(s)
  \/ \E s \in connected : SkipRecommend(s)
  \/ \E s \in connected : Export(s)

Spec == Init /\ [][Next]_vars

(***************************************************************************)
(* Two sessions in one server process.  Streamlit runs each session's      *)
(* script in a thread of its own, so the steps of the two runs interleave; *)
(* os.environ is the one value both write and both read.  The judgments    *)
(* stay as the widgets first show them.                                    *)
(***************************************************************************)
InitTwoSessions == InitWith(Sessions, {DefaultRadio}, {<<>>})

NextTwoSessions ==
  \/ \E s \in connected : EnterKey(s)
  \/ \E s \in connected : ClickCalculate(s)
  \/ \E s \in connected : GetOpenaiApiKey(s)
  \/ \E s \in connected : MakeClient(s)
  \/ \E s \in connected : Main(s)
  \/ \E s \in connected : Score(s)
  \/ \E s \in connected : Rank(s)
  \/ \E s \in connected : Recommend(s)
  \/ \E s \in connected : SkipRecommend(s)
  \/ \E s \in connected : Export(s)

SpecTwoSessions == InitTwoSessions /\ [][NextTwoSessions]_vars

(***************************************************************************)
(* Functions applied on their own, to arguments drawn from a set.          *)
(***************************************************************************)
\* the judgments a criterion can be given
Judgments == {"Yes", "No", "N/A"}

\* the responses of factor f of bucket b under any assignment of judgments
\* to its criteria
FactorArgs(b, f) ==
  {get_user_input(Criteria(b, f), chosen) :
     chosen \in [1..Len(Criteria(b, f)) -> Judgments]}

\* the float just below x > 0
FPred(x) ==
  IF BBitLen(BSub(x.m, <<1>>)) < MantBits
  THEN [m |-> BSub(BShl(x.m, 1), <<1>>), e |-> x.e - 1]
  ELSE [m |-> BSub(x.m, <<1>>), e |-> x.e]

\* overall scores in [0, 10]: the sixteenths, and the float just below each
\* threshold
RankArgs ==
  {FIntDiv(k, 16) : k \in 0..160} \cup {FPred(Half(n)) : n \in 12..19}

Apply(v) ==
  /\ ~result.done
  /\ result' = [done |-> TRUE, value |-> v]
  /\ UNCHANGED arg
  /\ UNCHANGED <<connected, pc, button>>
  /\ UNCHANGED widgetVars
  /\ UNCHANGED keyVars
  /\ UNCHANGED resultVars

InitCalculateScore ==
  \E b \in 1..Len(seo_factors) :
    \E f \in 1..Len(seo_factors[b].factors) :
      InitWith({}, {DefaultRadio}, FactorArgs(b, f))

ApplyCalculateScore == Apply(calculate_score(arg))

NextCalculateScore == ApplyCalculateScore

SpecCalculateScore == InitCalculateScore /\ [][NextCalculateScore]_vars

InitEstimateRanking == InitWith({}, {DefaultRadio}, RankArgs)

ApplyEstimateRanking == Apply(estimate_ranking(arg))

NextEstimateRanking == ApplyEstimateRanking

SpecEstimateRanking == InitEstimateRanking /\ [][NextEstimateRanking]_vars

(***************************************************************************)
(* The scoring of main over catalogs other than the shipped one.  The code *)
(* reads seo_factors and bucket_weights wherever it uses them and checks   *)
(* neither; these are the catalogs an edit of the two literals can give.   *)
(***************************************************************************)
\* a factor as shipped, and a factor whose list of criteria is empty
ShippedFactor == seo_factors[1].factors[1]

EmptyFactor == [factor |-> "Empty", criteria |-> <<>>]

\* the factors a bucket may hold: none, one without criteria, one as
\* shipped, both
FactorLists ==
  {<<>>, <<EmptyFactor>>, <<ShippedFactor>>, <<ShippedFactor, EmptyFactor>>}

\* the shipped catalog, and the three buckets with any of these factor lists
Catalogs ==
  {seo_factors} \cup
  {[b \in 1..Len(seo_factors) |->
      [bucket |-> seo_factors[b].bucket, factors |-> fl[b]]] :
     fl \in [1..Len(seo_factors) -> FactorLists]}

\* the shipped weights, and weights that add up to 1.1 and to 0.9
WeightTables ==
  {bucket_weights,
   [bucket_weights EXCEPT !["Technical"] = FIntDiv(25, 100)],
   [bucket_weights EXCEPT !["Technical"] = FIntDiv(5, 100)]}

\* the widgets of a catalog, all holding the answer a
RadioOf(cat, a) ==
  [b \in 1..Len(cat) |->
    [f \in 1..Len(cat[b].factors) |->
      [c \in 1..Len(cat[b].factors[f].criteria) |-> a]]]

\* main, the loop that builds inputs, over a catalog
CollectInputsOf(cat, chosen) ==
  [b \in 1..Len(cat) |->
    [f \in 1..Len(cat[b].factors) |->
      get_user_input(cat[b].factors[f].criteria, chosen[b][f])]]

\* main, the scores of a Calculate run over a catalog and a weight table:
\* the scores dict the page goes on to show, or the exception that ends the
\* run before anything is shown (bucket_score / len(factors) with no
\* factors)
ScoreCatalog(cat, weights, inp) ==
  IF \E b \in 1..Len(cat) : cat[b].factors = <<>>
  THEN [error |-> "ZeroDivisionError", scores |-> <<>>]
  ELSE LET sc == [b \in 1..Len(cat) |->
                    [key   |-> cat[b].bucket,
                     value |-> BucketScore([f \in 1..Len(cat[b].factors) |->
                                              calculate_score(inp[b][f])])]]
           overall_score ==
             PySum([i \in 1..Len(sc) |-> FMul(sc[i].value, weights[sc[i].key])],
                   FZero)
       IN  [error  |-> "",
            scores |-> Append(sc, [key |-> "Overall", value |-> overall_score])]

CatalogArgs ==
  {[catalog |-> cat, weights |-> w, answer |-> a] :
     cat \in Catalogs, w \in WeightTables, a \in {"Yes", "No"}}

InitScoreCatalog == InitWith({}, {DefaultRadio}, CatalogArgs)

ApplyScoreCatalog ==
  Apply(ScoreCatalog(arg.catalog, arg.weights,
                     CollectInputsOf(arg.catalog, RadioOf(arg.catalog, arg.answer))))

NextScoreCatalog == ApplyScoreCatalog

SpecScoreCatalog == InitScoreCatalog /\ [][NextScoreCatalog]_vars

(***************************************************************************)
(* The scoring step of main applied to a response set, and applied again   *)
(* to what the first application left of it.                               *)
(***************************************************************************)
\* the widget values within one changed judgment of r
ResponseSetsNear(r) ==
  {r} \cup
  UNION {{[r EXCEPT ![p[1]][p[2]][p[3]] = j] :
            j \in {RadioOptions(Criteria(p[1], p[2])[p[3]].criterion)[i] :
                     i \in 1..Len(RadioOptions(Criteria(p[1], p[2])[p[3]].criterion))}} :
           p \in Positions}

\* a scoring that takes each response out of inputs as it counts it
ScoreRun_popping(inp) ==
  LET fsc == [b \in 1..Len(seo_factors) |-> FactorScores(inp, b)]
  IN  [inputs        |-> [b \in 1..Len(inp) |-> [f \in 1..Len(inp[b]) |-> <<>>]],
       factor_scores |-> fsc,
       scores        |-> AllScores(fsc)]

\* main, the scoring of a Calculate run: what it computes, and what it
\* leaves in inputs (calculate_score and the loop only read it)
ScoreRun(inp) ==
  LET fsc == [b \in 1..Len(seo_factors) |-> FactorScores(inp, b)]
  IN  [inputs        |-> inp,
       factor_scores |-> fsc,
       scores        |-> AllScores(fsc)]

InitScoreTwice ==
  \E r0 \in {DefaultRadio, AllYes, Alternating} :
    InitWith({}, {DefaultRadio},
             {[radio |-> r, inputs |-> CollectInputs(r)] : r \in ResponseSetsNear(r0)})

\* one scoring of arg.inputs; result.value holds what each scoring computed
ApplyScoreRun ==
  /\ Len(result.value) < 2
  /\ LET r == ScoreRun(arg.inputs)
     IN  /\ arg' = [arg EXCEPT !.inputs = r.inputs]
         /\ result' =
              [done  |-> Len(result.value) = 1,
               value |-> Append(result.value,
                                [factor_scores |-> r.factor_scores,
                                 scores        |-> r.scores])]
  /\ UNCHANGED <<connected, pc, button>>
  /\ UNCHANGED widgetVars
  /\ UNCHANGED keyVars
  /\ UNCHANGED resultVars

NextScoreTwice == ApplyScoreRun

SpecScoreTwice == InitScoreTwice /\ [][NextScoreTwice]_vars

(***************************************************************************)
(* The scoring of main with the catalog's buckets, factors and criteria    *)
(* written in another order.  Every loop of the code follows the order of  *)
(* the dict it iterates, which is the order of the seo_factors literal.    *)
(***************************************************************************)
\* every judgment Yes but: "Contains proper length" of Meta Title is No,
\* and the Technical factors Canonical Tag and Hreflang Tag have no Yes
NearTop ==
  [AllYes EXCEPT ![1][2][1] = "No",
                 ![3][1] = [c \in 1..Len(Criteria(3, 1)) |-> "No"],
                 ![3][2] = [c \in 1..Len(Criteria(3, 2)) |-> "No"]]

\* the orders the three buckets can be written in
BucketOrders ==
  {o \in [1..Len(seo_factors) -> 1..Len(seo_factors)] :
     \A i, j \in 1..Len(seo_factors) : o[i] = o[j] => i = j}

\* ways to reorder n entries: as they are, reversed, the first moved last
OrderKinds == {"same", "reversed", "rotated"}

Order(kind, n) ==
  [i \in 1..n |->
     CASE kind = "same"     -> i
       [] kind = "reversed" -> n + 1 - i
       [] kind = "rotated"  -> (i % n) + 1]

\* (\o <<>> makes the sequence an explicit tuple, evaluated once)
Reorder(xs, kind) ==
  LET ys  == xs \o <<>>
      ord == Order(kind, Len(ys)) \o <<>>
  IN  [i \in 1..Len(ys) |-> ys[ord[i]]] \o <<>>

\* main's scores over the catalog with its buckets in the order `buckets`
\* and each bucket's factors and each factor's criteria reordered
ScoreInOrder(inp, buckets, factors, criteria) ==
  LET sc == [i \in 1..Len(buckets) |->
               [key   |-> seo_factors[buckets[i]].bucket,
                value |-> BucketScore(
                            Reorder([f \in 1..Len(inp[buckets[i]]) |->
                                       calculate_score(Reorder(inp[buckets[i]][f], criteria))],
                                    factors))]]
  IN  Append(sc, [key |-> "Overall", value |-> OverallScore(sc)])

ReorderArgs ==
  {[inputs |-> CollectInputs(r), buckets |-> o, factors |-> fk, criteria |-> ck] :
     r \in ResponseSetsNear(AllYes) \cup {NearTop},
     o \in BucketOrders, fk \in OrderKinds, ck \in OrderKinds}

InitScoreInOrder == InitWith({}, {DefaultRadio}, ReorderArgs)

ApplyScoreInOrder ==
  LET sc == ScoreInOrder(arg.inputs, arg.buckets, arg.factors, arg.criteria)
  IN  Apply([scores            |-> sc,
             estimated_ranking |-> estimate_ranking(Lookup(sc, "Overall"))])

NextScoreInOrder == ApplyScoreInOrder

SpecScoreInOrder == InitScoreInOrder /\ [][NextScoreInOrder]_vars

(***************************************************************************)
(* Two Calculate runs of one session: one with the widgets as they are,    *)
(* one after the user has picked another option of one radio widget.       *)
(***************************************************************************)
\* what a Calculate run over the widget values r computes
RunOf(r) ==
  LET sr == ScoreRun(CollectInputs(r))
  IN  [factor_scores     |-> sr.factor_scores,
       scores            |-> sr.scores,
       estimated_ranking |-> estimate_ranking(Lookup(sr.scores, "Overall"))]

\* the widget values r with the widget at position p set to j
Picked(r, p, j) == [r EXCEPT ![p[1]][p[2]][p[3]] = j]

\* a response set, a position and an option of its widget other than the
\* one it holds
ChangeArgsOf(r) ==
  UNION {{[radio |-> r, position |-> p, to |-> RadioOptions(Criteria(p[1], p[2])[p[3]].criterion)[i]] :
            i \in {i \in 1..Len(RadioOptions(Criteria(p[1], p[2])[p[3]].criterion)) :
                     RadioOptions(Criteria(p[1], p[2])[p[3]].criterion)[i]
                       # r[p[1]][p[2]][p[3]]}} :
           p \in Positions}

InitChangeJudgment ==
  \E r \in {DefaultRadio, AllYes, NearTop} \cup ResponseSetsNear(Alternating) :
    InitWith({}, {DefaultRadio}, ChangeArgsOf(r))

ApplyChangeJudgment ==
  Apply([before |-> RunOf(arg.radio),
         after  |-> RunOf(Picked(arg.radio, arg.position, arg.to))])

NextChangeJudgment == ApplyChangeJudgment

SpecChangeJudgment == InitChangeJudgment /\ [][NextChangeJudgment]_vars

(***************************************************************************)
(* What the properties below are stated with.  Floats are compared with    *)
(* real numbers exactly: Exact(x) is the integer x * 2^75.                 *)
(***************************************************************************)
ExactBits == 5 * LimbBits

Exact(x) == IF x.m = <<>> THEN <<>> ELSE BShl(x.m, x.e + ExactBits)

\* the integer k * 2^75
ExactInt(k) == BShl(BFromInt(k), ExactBits)

BAbsDiff(a, b) == IF BCmp(a, b) >= 0 THEN BSub(a, b) ELSE BSub(b, a)

\* |a - b| <= k * 2^-40, for a and b scaled by 2^75
Near(a, b, k) == BCmp(BAbsDiff(a, b), BShl(BFromInt(k), ExactBits - 40)) <= 0

RECURSIVE ExactSum(_)
ExactSum(xs) == IF xs = <<>> THEN <<>> ELSE BAdd(Exact(Head(xs)), ExactSum(Tail(xs)))

Ten == [m |-> BShl(<<10>>, 49), e |-> 0 - 49]

\* the run of session s has computed its scores
Scored(s) == pc[s] \in {"rank", "recommend", "export", "done", "failed"}

\* the blocks of document d after heading `from` and before heading `to`
Section(d, from, to) ==
  LET i == CHOOSE i \in 1..Len(d) : d[i] = Block("Heading 1", <<from>>, -1)
      j == CHOOSE j \in 1..Len(d) : d[j] = Block("Heading 1", <<to>>, -1)
  IN  SubSeq(d, i + 1, j - 1)

\* the report of session s shows the scores and the rank estimate computed
ReportShowsScores(s) ==
  LET sec == Section(doc[s], "Scores", "Estimated Ranking")
      est == Section(doc[s], "Estimated Ranking", "Recommendations")
  IN  /\ Len(sec) = Len(scores[s])
      /\ \A i \in 1..Len(sec) :
           /\ sec[i].text[1] = scores[s][i].key
           /\ sec[i].num = Hundredths(scores[s][i].value)
      /\ Len(est) = 1
      /\ est[1].text[2] = estimated_ranking[s]

\* the sum of the weights of the responses whose judgment is in js
RECURSIVE WeightOf(_, _)
WeightOf(inp, js) ==
  IF inp = <<>> THEN 0
  ELSE (IF Head(inp).response \in js THEN Head(inp).weight ELSE 0)
         + WeightOf(Tail(inp), js)

NoYes(inp) == \A i \in 1..Len(inp) : inp[i].response # "Yes"

(***************************************************************************)
(* C1.  Without a credential the recommendation call is not attempted,     *)
(* and the Calculate run still ends with the scores, the rank estimate and *)
(* a report whose recommendation section holds the placeholder text.       *)
(* The code does not do this: recommendations is read unassigned.          *)
(***************************************************************************)
C1_ReportWithoutCredential ==
  \A s \in connected :
    (pc[s] \in {"done", "failed"} /\ api_result[s] = "none") =>
      /\ pc[s] = "done"
      /\ error[s] = ""
      /\ Len(scores[s]) = Len(seo_factors) + 1
      /\ estimated_ranking[s] # "UNBOUND"
      /\ doc[s] # <<>>
      /\ Section(doc[s], "Recommendations", "Selected Criteria") # <<>>

(***************************************************************************)
(* C2.  When the recommendation call raises, it was made once, the         *)
(* function returned the fixed placeholder, no exception ended the run,    *)
(* the scores and the rank estimate stand, and the report delivered shows  *)
(* them with the placeholder as its recommendation section.                *)
(***************************************************************************)
C2_RaisedCallIsIsolated ==
  \A s \in connected :
    api_result[s] = "raised" =>
      /\ api_calls[s] = 1
      /\ recommendations[s].bound
      /\ recommendations[s].lines =
           <<Line("", "Unable to generate recommendations at this time.")>>
      /\ error[s] = ""
      /\ pc[s] \in {"export", "done"}
      /\ Len(scores[s]) = Len(seo_factors) + 1
      /\ estimated_ranking[s] # "UNBOUND"
      /\ pc[s] = "done" =>
           /\ doc[s] # <<>>
           /\ ReportShowsScores(s)
           /\ Section(doc[s], "Recommendations", "Selected Criteria") =
                <<Block("Normal",
                        <<"Unable to generate recommendations at this time.">>, -1)>>

C2_Witness ==
  \E s \in connected :
    /\ api_result[s] = "raised"
    /\ pc[s] = "done"
    /\ doc[s] # <<>>

(***************************************************************************)
(* C3.  A criterion the user gave no judgment makes scoring signal         *)
(* IncompleteResponseError and return no score.  The code does not do      *)
(* this: the widget's default, "No", is scored.                            *)
(***************************************************************************)
C3_UnsetJudgmentIsAnError ==
  \A s \in connected :
    (Scored(s) /\ touched[s] # Positions) =>
      /\ error[s] = "IncompleteResponseError"
      /\ factor_scores[s] = <<>>
      /\ scores[s] = <<>>

(***************************************************************************)
(* C4.  For every factor and every assignment of Yes / No / N/A to its     *)
(* criteria, calculate_score returns 10 * earned / eligible (to within     *)
(* 2^-40, the rounding of the float arithmetic; exactly 0 when nothing is  *)
(* earned and exactly 10 when everything eligible is), and 0 when eligible *)
(* is 0.                                                                   *)
(***************************************************************************)
C4_FactorScoreFormula ==
  result.done =>
    LET earned   == WeightOf(arg, {"Yes"})
        eligible == WeightOf(arg, {"Yes", "No"})
    IN  IF eligible = 0 THEN result.value = FZero
        ELSE /\ Near(BMulSmall(Exact(result.value), eligible),
                     ExactInt(10 * earned), eligible)
             /\ earned = 0 => result.value = FZero
             /\ earned = eligible => result.value = Ten

C4_Witness ==
  /\ result.done
  /\ \E i, j, k \in 1..Len(arg) :
       /\ arg[i].response = "Yes"
       /\ arg[j].response = "No"
       /\ arg[k].response = "N/A"
  /\ result.value # FZero

(***************************************************************************)
(* C5.  A factor none of whose criteria is judged Yes scores exactly 0,    *)
(* with no error, also when all its judgments are No and when all are N/A; *)
(* and that 0 is counted in the bucket mean: with k such factors among the *)
(* n of a bucket the bucket score is at most 10 * (n - k) / n.             *)
(***************************************************************************)
C5_NoYesFactorScoresZero ==
  \A s \in connected :
    Scored(s) =>
      \A b \in 1..Len(seo_factors) :
        LET n == Len(seo_factors[b].factors)
            zero == {f \in 1..n : NoYes(inputs[s][b][f])}
        IN  /\ \A f \in zero : factor_scores[s][b][f] = FZero
            /\ pc[s] = "rank" => error[s] = ""
            /\ Len(factor_scores[s][b]) = n
            /\ FGeq(FIntDiv(10 * (n - Cardinality(zero)), n), scores[s][b].value)

C5_Witness ==
  \E s \in connected :
    /\ pc[s] = "rank"
    /\ \E b \in 1..Len(seo_factors) :
         /\ \E f \in 1..Len(seo_factors[b].factors) :
              /\ WeightOf(inputs[s][b][f], {"Yes", "No"}) = 0
              /\ factor_scores[s][b][f] = FZero
         /\ \E f \in 1..Len(seo_factors[b].factors) : factor_scores[s][b][f] = Ten
         /\ scores[s][b].value # FZero

(***************************************************************************)
(* C6.  With every judgment Yes, every factor score, every bucket score    *)
(* and the overall score is exactly 10.0, and the bucket weights 0.55,     *)
(* 0.30 and 0.15 add up to exactly 1.0.                                    *)
(***************************************************************************)
One == [m |-> BShl(<<1>>, MantBits - 1), e |-> 0 - (MantBits - 1)]

C6_AllYesScoresTen ==
  \A s \in connected :
    (Scored(s) /\ \A p \in Positions : inputs[s][p[1]][p[2]][p[3]].response = "Yes") =>
      /\ \A b \in 1..Len(seo_factors) :
           \A f \in 1..Len(seo_factors[b].factors) : factor_scores[s][b][f] = Ten
      /\ Len(scores[s]) = Len(seo_factors) + 1
      /\ \A i \in 1..Len(scores[s]) : scores[s][i].value = Ten
      /\ PySum([b \in 1..Len(seo_factors) |-> bucket_weights[seo_factors[b].bucket]],
               FZero) = One

C6_Witness ==
  \E s \in connected :
    /\ pc[s] = "rank"
    /\ \A p \in Positions : inputs[s][p[1]][p[2]][p[3]].response = "Yes"
    /\ Lookup(scores[s], "Overall") = Ten

(***************************************************************************)
(* C7.  estimate_ranking returns, for every overall score in [0, 10], the  *)
(* label of the first threshold of the table, from the highest down, that  *)
(* the score meets or exceeds, and "100+" when it meets none; a threshold  *)
(* itself gets its own label and the float just below it the next one.     *)
(***************************************************************************)
RankTable ==
  <<[halves |-> 19, label |-> "1-3"],   [halves |-> 18, label |-> "4-6"],
    [halves |-> 17, label |-> "7-10"],  [halves |-> 16, label |-> "11-15"],
    [halves |-> 15, label |-> "16-20"], [halves |-> 14, label |-> "21-30"],
    [halves |-> 13, label |-> "31-50"], [halves |-> 12, label |-> "51-100"]>>

\* x >= n / 2, in exact arithmetic
MeetsHalves(x, n) == BCmp(BMulSmall(Exact(x), 2), ExactInt(n)) >= 0

TableLabel(x) ==
  LET met == {i \in 1..Len(RankTable) : MeetsHalves(x, RankTable[i].halves)}
  IN  IF met = {} THEN "100+"
      ELSE RankTable[CHOOSE i \in met : \A j \in met : i <= j].label

C7_RankIsFirstThresholdMet ==
  result.done =>
    /\ result.value = TableLabel(arg)
    /\ \A i \in 1..Len(RankTable) :
         /\ arg = Half(RankTable[i].halves) => result.value = RankTable[i].label
         /\ arg = FPred(Half(RankTable[i].halves)) =>
              result.value = IF i < Len(RankTable) THEN RankTable[i + 1].label
                             ELSE "100+"

C7_Witness ==
  /\ result.done
  /\ arg = FPred(Half(19))
  /\ result.value = "4-6"

(***************************************************************************)
(* C8.  Every factor score, every bucket score and the overall score lies  *)
(* in [0, 10].                                                             *)
(***************************************************************************)
InRange(x) == FGeq(x, FZero) /\ FGeq(Ten, x)

C8_ScoresInRange ==
  \A s \in connected :
    Scored(s) =>
      /\ \A b \in 1..Len(seo_factors) :
           \A f \in 1..Len(seo_factors[b].factors) : InRange(factor_scores[s][b][f])
      /\ \A i \in 1..Len(scores[s]) : InRange(scores[s][i].value)

C8_Witness ==
  \E s \in connected :
    /\ pc[s] = "rank"
    /\ \E i \in 1..Len(scores[s]) :
         scores[s][i].value # FZero /\ scores[s][i].value # Ten

(***************************************************************************)
(* C9.  Each bucket score is the unweighted mean of its factors' scores:   *)
(* their sum divided by their number (to within 2^-40, the rounding of     *)
(* the float arithmetic), whatever the factors' criteria and weights.      *)
(***************************************************************************)
C9_BucketIsMeanOfFactors ==
  \A s \in connected :
    pc[s] = "rank" =>
      \A b \in 1..Len(seo_factors) :
        LET n == Len(seo_factors[b].factors)
        IN  /\ scores[s][b].key = seo_factors[b].bucket
            /\ Len(factor_scores[s][b]) = n
            /\ Near(BMulSmall(Exact(scores[s][b].value), n),
                    ExactSum(factor_scores[s][b]), n)

C9_Witness ==
  \E s \in connected :
    /\ pc[s] = "rank"
    /\ \E b \in 1..Len(seo_factors) :
         /\ \E f \in 1..Len(seo_factors[b].factors) :
              /\ Len(Criteria(b, f)) = 1
              /\ factor_scores[s][b][f] = FZero
         /\ \E f \in 1..Len(seo_factors[b].factors) :
              /\ Len(Criteria(b, f)) > 1
              /\ factor_scores[s][b][f] \notin {FZero, Ten}
         /\ scores[s][b].value \notin {FZero, Ten}

(***************************************************************************)
(* C10.  The overall score is 0.55 * On-Page + 0.30 * Off-Page +           *)
(* 0.15 * Technical (to within 2^-40): the sum runs over exactly the three *)
(* buckets, each of which has a weight, and the "Overall" entry kept with  *)
(* the bucket scores is no part of it.                                     *)
(***************************************************************************)
Hundredth(b) ==
  CASE b = "On-Page" -> 55 [] b = "Off-Page" -> 30 [] b = "Technical" -> 15

RECURSIVE ExactWeighted(_)
ExactWeighted(sc) ==
  IF sc = <<>> THEN <<>>
  ELSE BAdd(BMulSmall(Exact(Head(sc).value), Hundredth(Head(sc).key)),
            ExactWeighted(Tail(sc)))

C10_OverallIsWeightedSum ==
  \A s \in connected :
    pc[s] = "rank" =>
      /\ [i \in 1..Len(scores[s]) |-> scores[s][i].key] =
           <<"On-Page", "Off-Page", "Technical", "Overall">>
      /\ \A b \in 1..Len(seo_factors) : seo_factors[b].bucket \in DOMAIN bucket_weights
      /\ Near(BMulSmall(Exact(Lookup(scores[s], "Overall")), 100),
              ExactWeighted(SubSeq(scores[s], 1, 3)), 100)

C10_Witness ==
  \E s \in connected :
    /\ pc[s] = "rank"
    /\ Lookup(scores[s], "Overall") \notin {FZero, Ten}
    /\ \E i \in 1..3 : scores[s][i].value = Ten

(***************************************************************************)
(* C11.  In a Calculate run the three bucket scores, the overall score and *)
(* the rank estimate are all computed before the recommendation call is    *)
(* made, and from then on no step of the run (the call answering, the call *)
(* raising, the call not being attempted, the export) changes a factor     *)
(* score, a bucket score, the overall score or the rank estimate.          *)
(***************************************************************************)
\* the scores and the rank estimate of session s are all there
ScoresComplete(s) ==
  /\ Len(factor_scores[s]) = Len(seo_factors)
  /\ [i \in 1..Len(scores[s]) |-> scores[s][i].key] =
       [b \in 1..Len(seo_factors) |-> seo_factors[b].bucket] \o <<"Overall">>
  /\ estimated_ranking[s] \in
       {RankTable[i].label : i \in 1..Len(RankTable)} \cup {"100+"}

C11_ScoresPrecedeAndSurviveCall ==
  [][\A s \in connected :
       /\ pc[s] \in {"recommend", "export"} =>
            /\ ScoresComplete(s)
            /\ factor_scores'[s] = factor_scores[s]
            /\ scores'[s] = scores[s]
            /\ estimated_ranking'[s] = estimated_ranking[s]
       /\ (api_calls'[s] # api_calls[s] \/ api_result'[s] # api_result[s]) =>
            \/ pc[s] = "recommend" /\ api_calls'[s] = api_calls[s] + 1
            \/ Resting(s) /\ api_calls'[s] = 0 /\ api_result'[s] = "none"]_vars

C11_Witness ==
  \E s \in connected :
    /\ pc[s] = "export"
    /\ api_result[s] = "answered"
    /\ api_calls[s] = 1
    /\ ScoresComplete(s)
    /\ Lookup(scores[s], "Overall") # FZero

(***************************************************************************)
(* C12.  A catalog that breaks a catalog invariant (bucket weights that do *)
(* not add up to 1.0, a bucket with no factors, a factor with no criteria) *)
(* is rejected: scoring over it signals an error and yields no score.  The *)
(* code does not do this: only the empty bucket ends the run (with a       *)
(* ZeroDivisionError); a factor with no criteria scores 0 and wrong        *)
(* weights are used as they are.                                           *)
(***************************************************************************)
\* the catalog invariants of the specification
ValidCatalog(cat, weights) ==
  /\ PySum([b \in 1..Len(cat) |-> weights[cat[b].bucket]], FZero) = One
  /\ \A b \in 1..Len(cat) :
       /\ cat[b].factors # <<>>
       /\ \A f \in 1..Len(cat[b].factors) : cat[b].factors[f].criteria # <<>>

C12_InvalidCatalogIsRejected ==
  (result.done /\ ~ValidCatalog(arg.catalog, arg.weights)) =>
    /\ result.value.error # ""
    /\ result.value.scores = <<>>

(***************************************************************************)
(* C13.  With two sessions running in one process, their steps interleaved *)
(* in any order, the credential a session's recommendation call is made    *)
(* with is the one that session's user supplied.  The code does not do     *)
(* this: the client takes its key from os.environ, which the other         *)
(* session may have written since.                                         *)
(***************************************************************************)
C13_CallUsesOwnCredential ==
  \A s \in connected :
    api_calls[s] > 0 => client[s] = key_input[s]

(***************************************************************************)
(* C14.  The checklist section of a report walks the catalog: a heading    *)
(* for every bucket and, under it, a heading for every factor, in catalog  *)
(* order; under a factor's heading exactly one entry for each of its       *)
(* criteria judged Yes or No, showing the judgment the widget holds, and   *)
(* no entry for a criterion judged N/A; nothing else.                      *)
(***************************************************************************)
\* the blocks of document d after the heading 'Selected Criteria'
Checklist(d) ==
  LET i == CHOOSE i \in 1..Len(d) : d[i] = Block("Heading 1", <<"Selected Criteria">>, -1)
  IN  SubSeq(d, i + 1, Len(d))

\* for each block of cl, how many bucket headings and how many factor
\* headings come before it, itself included
RECURSIVE Owners(_, _, _)
Owners(cl, b, n) ==
  IF cl = <<>> THEN <<>>
  ELSE LET b2 == IF Head(cl).style = "Heading 2" THEN b + 1 ELSE b
           n2 == IF Head(cl).style = "Heading 3" THEN n + 1 ELSE n
       IN  <<[h2 |-> b2, h3 |-> n2]>> \o Owners(Tail(cl), b2, n2)

\* the factors of the catalog before factor f of bucket b, and itself
RECURSIVE FactorNumber(_, _)
FactorNumber(b, f) ==
  IF b = 1 THEN f ELSE FactorNumber(b - 1, Len(seo_factors[b - 1].factors)) + f

C14_ChecklistListsYesNo ==
  \A s \in connected :
    pc[s] = "done" =>
      LET cl == Checklist(doc[s])
          own == Owners(cl, 0, 0)
          entriesOf(b, f) ==
            {k \in 1..Len(cl) :
               /\ cl[k].style = "Normal"
               /\ own[k].h2 = b
               /\ own[k].h3 = FactorNumber(b, f)}
      IN  /\ SelectSeq(cl, LAMBDA x : x.style = "Heading 2") =
               [b \in 1..Len(seo_factors) |->
                  Block("Heading 2", <<seo_factors[b].bucket, "Factors">>, -1)]
          /\ \A b \in 1..Len(seo_factors) :
               \A f \in 1..Len(seo_factors[b].factors) :
                 /\ \E k \in 1..Len(cl) :
                      /\ cl[k] = Block("Heading 3", <<seo_factors[b].factors[f].factor>>, -1)
                      /\ own[k].h2 = b
                      /\ own[k].h3 = FactorNumber(b, f)
                 /\ \A c \in 1..Len(Criteria(b, f)) :
                      LET name == Criteria(b, f)[c].criterion
                          hits == {k \in entriesOf(b, f) : cl[k].text[1] = name}
                      IN  IF radio[s][b][f][c] = "N/A" THEN hits = {}
                          ELSE /\ Cardinality(hits) = 1
                               /\ \A k \in hits : cl[k].text = <<name, radio[s][b][f][c]>>
                 /\ Cardinality(entriesOf(b, f)) =
                      Cardinality({c \in 1..Len(Criteria(b, f)) :
                                     radio[s][b][f][c] # "N/A"})
          /\ \A k \in 1..Len(cl) : cl[k].style \in {"Heading 2", "Heading 3", "Normal"}

C14_Witness ==
  \E s \in connected :
    /\ pc[s] = "done"
    /\ \E p, q, r \in Positions :
         /\ radio[s][p[1]][p[2]][p[3]] = "N/A"
         /\ radio[s][q[1]][q[2]][q[3]] = "Yes"
         /\ radio[s][r[1]][r[2]][r[3]] = "No"
         /\ p[1] = q[1] /\ p[2] = q[2]
    /\ Len(Checklist(doc[s])) > Len(seo_factors)

ShippedOrderScores(inp) ==
  AllScores([b \in 1..Len(seo_factors) |-> FactorScores(inp, b)])

Tier(label) ==
  IF \E i \in 1..Len(RankTable) : RankTable[i].label = label
  THEN CHOOSE i \in 1..Len(RankTable) : RankTable[i].label = label
  ELSE Len(RankTable) + 1

C17_MoreYesNeverScoresLess ==
  result.done =>
    LET b      == arg.position[1]
        f      == arg.position[2]
        from   == arg.radio[b][f][arg.position[3]]
        before == result.value.before
        after  == result.value.after
    IN  /\ (from = "No" /\ arg.to \in {"Yes", "N/A"}) =>
             /\ FGeq(after.factor_scores[b][f], before.factor_scores[b][f])
             /\ arg.to = "Yes" =>
                  after.factor_scores[b][f] # before.factor_scores[b][f]
             /\ \A i \in 1..Len(before.scores) :
                  /\ after.scores[i].key = before.scores[i].key
                  /\ FGeq(after.scores[i].value, before.scores[i].value)
             /\ Tier(after.estimated_ranking) <= Tier(before.estimated_ranking)
        /\ (from = "Yes" /\ arg.to = "N/A" /\ Len(Criteria(b, f)) = 1) =>
             /\ before.factor_scores[b][f] = Ten
             /\ after.factor_scores[b][f] = FZero
             /\ ~FGeq(after.scores[b].value, before.scores[b].value)
             /\ ~FGeq(Lookup(after.scores, "Overall"), Lookup(before.scores, "Overall"))

\* a change from No to Yes that moved the rank estimate to a better tier
C17_Witness ==
  /\ result.done
  /\ arg.radio[arg.position[1]][arg.position[2]][arg.position[3]] = "No"
  /\ arg.to = "Yes"
  /\ Tier(result.value.after.estimated_ranking)
       < Tier(result.value.before.estimated_ranking)

(***************************************************************************)
(* C18.  The inputs a run reads off the widgets hold, for every criterion  *)
(* of the catalog, exactly one response with that criterion's name and     *)
(* weight and one judgment; the judgment is No wherever the user has       *)
(* picked nothing, and it is N/A only for a criterion whose name contains  *)
(* "optional".  So the eligible weight of every factor is positive,        *)
(* except that of Technical / Hreflang Tag, which can be 0.                *)
(***************************************************************************)
\* the names of the catalog's criteria that contain "optional", found by
\* the word in the name rather than by the widget's options
OptionalNames ==
  {"Non-parameterized (optional)",
   "Hreflang tag (optional) is correct, targets the right locations, and references other translated page equivalents"}

C18_InputsAreWellFormed ==
  \A s \in connected :
    /\ \A p \in Positions \ touched[s] : radio[s][p[1]][p[2]][p[3]] = "No"
    /\ inputs[s] # <<>> =>
         /\ Len(inputs[s]) = Len(seo_factors)
         /\ \A b \in 1..Len(seo_factors) :
              /\ Len(inputs[s][b]) = Len(seo_factors[b].factors)
              /\ \A f \in 1..Len(seo_factors[b].factors) :
                   /\ Len(inputs[s][b][f]) = Len(Criteria(b, f))
                   /\ \A c \in 1..Len(Criteria(b, f)) :
                        /\ inputs[s][b][f][c].criterion = Criteria(b, f)[c].criterion
                        /\ inputs[s][b][f][c].weight = Criteria(b, f)[c].weight
                        /\ inputs[s][b][f][c].response = radio[s][b][f][c]
                        /\ inputs[s][b][f][c].response \in {"Yes", "No", "N/A"}
                        /\ inputs[s][b][f][c].response = "N/A" =>
                             inputs[s][b][f][c].criterion \in OptionalNames
                   /\ WeightOf(inputs[s][b][f], {"Yes", "No"}) = 0 =>
                        /\ seo_factors[b].bucket = "Technical"
                        /\ seo_factors[b].factors[f].factor = "Hreflang Tag"

\* a run whose inputs leave Hreflang Tag no eligible weight, and give the
\* other optional criterion N/A or a judgment
C18_Witness ==
  \E s \in connected :
    /\ pc[s] = "rank"
    /\ \E b \in 1..Len(seo_factors) :
         \E f \in 1..Len(seo_factors[b].factors) :
           /\ seo_factors[b].factors[f].factor = "Hreflang Tag"
           /\ WeightOf(inputs[s][b][f], {"Yes", "No"}) = 0
           /\ inputs[s][b][f][1].response = "N/A"
           /\ factor_scores[s][b][f] = FZero
====
